---- MODULE Spec2Model ----
(***************************************************************************)
(* Model of eventbridge-pipes-dynamodb-to-eventbridge-cdk:                 *)
(*   infrastructure/eventbridge_pipes.py  (UserEventsPipeline)             *)
(*   app.py                               (MyApplicationStack, app.synth)  *)
(*                                                                         *)
(* Python str values are TLA+ strings, except the strings that take part   *)
(* in a prefix test (partition keys, key_prefix), which are sequences of   *)
(* one-character strings.  Python None is the record None.  A raised       *)
(* exception is a record [type, message].                                  *)
(***************************************************************************)
EXTENDS Integers, Sequences, FiniteSets, TLC

VARIABLES pc, event_source_name, ddb, pipe_iam_role, children, pipes,
          calls, error, synthesized, deliveries

vars == <<pc, event_source_name, ddb, pipe_iam_role, children, pipes,
          calls, error, synthesized, deliveries>>

None == [none |-> TRUE]

\* Python truthiness of an optional string: None and "" are falsy.
EmptyString == [str |-> ""]
Truthy(v) == v # None /\ v # EmptyString

ValueError(msg) == [type |-> "ValueError", message |-> msg]

----------------------------------------------------------------------------
\* Bounds of the model.
MaxDeliveries == 2

----------------------------------------------------------------------------
\* CDK tokens

\* Stack.of(self).partition / region / account in the event bus ARN.
StackPartition == "AWS::Partition"
StackRegion == "AWS::Region"
StackAccount == "AWS::AccountId"

GetAtt(logical_id, attr) == [GetAtt |-> <<logical_id, attr>>]

\* dynamodb.Table(self, id, partition_key, sort_key, stream): the stream ARN
\* attribute exists only when a stream view type was given.
Table(id, partition_key, sort_key, stream) ==
    [id |-> <<id>>,
     table_name |-> id,
     partition_key |-> partition_key,
     sort_key |-> sort_key,
     stream |-> stream,
     table_stream_arn |-> IF stream # None THEN GetAtt(id, "StreamArn") ELSE None]

Attribute(name, type) == [name |-> name, type |-> type]

NEW_AND_OLD_IMAGES == [view_type |-> "NEW_AND_OLD_IMAGES"]

\* The table the constructor declares.
DDBTable ==
    Table("DDBTable", Attribute("PK", "STRING"), Attribute("SK", "STRING"),
          NEW_AND_OLD_IMAGES)

----------------------------------------------------------------------------
\* JSON text as a sequence of tokens.

LBrace == [p |-> "{"]
RBrace == [p |-> "}"]
LBracket == [p |-> "["]
RBracket == [p |-> "]"]
Colon == [p |-> ":"]
Comma == [p |-> ","]
Str(s) == [s |-> s]

\* Python values: dict = [t |-> "dict", items |-> sequence of <<key, value>>],
\* list = [t |-> "list", items |-> sequence], str = [t |-> "str", s |-> s].
Dict(items) == [t |-> "dict", items |-> items]
List(items) == [t |-> "list", items |-> items]
PyStr(s) == [t |-> "str", s |-> s]

RECURSIVE json_dumps(_)
RECURSIVE dumps_items(_)
RECURSIVE dumps_members(_)

dumps_items(items) ==
    IF items = <<>> THEN <<>>
    ELSE json_dumps(Head(items))
         \o (IF Tail(items) = <<>> THEN <<>> ELSE <<Comma>>)
         \o dumps_items(Tail(items))

dumps_members(items) ==
    IF items = <<>> THEN <<>>
    ELSE <<Str(Head(items)[1]), Colon>> \o json_dumps(Head(items)[2])
         \o (IF Tail(items) = <<>> THEN <<>> ELSE <<Comma>>)
         \o dumps_members(Tail(items))

json_dumps(v) ==
    IF v.t = "dict" THEN <<LBrace>> \o dumps_members(v.items) \o <<RBrace>>
    ELSE IF v.t = "list" THEN <<LBracket>> \o dumps_items(v.items) \o <<RBracket>>
    ELSE <<Str(v.s)>>

----------------------------------------------------------------------------
\* UserEventsPipeline helpers

\* Variant: a longer prefix.
key_prefix_longer == <<"U", "S", "E", "R", "#", "1">>

key_prefix == <<"U", "S", "E", "R", "#">>
batch_size == 1
starting_position == "LATEST"

ValidEventNames == {"INSERT", "MODIFY", "REMOVE"}

\* Variant: the event name is checked before the stream.
_validate_pipe_parameters_name_first(ddb_table, event_name) ==
    IF event_name \notin ValidEventNames
    THEN ValueError(<<"event_name must be one of: INSERT, MODIFY, REMOVE. Got:",
                      event_name>>)
    ELSE IF ~Truthy(ddb_table.table_stream_arn)
    THEN ValueError(<<"DynamoDB table", ddb_table.table_name,
                      "must have streams enabled">>)
    ELSE None

\* Variant: the event name is compared without regard to case.
_validate_pipe_parameters_any_case(ddb_table, event_name) ==
    IF ~Truthy(ddb_table.table_stream_arn)
    THEN ValueError(<<"DynamoDB table", ddb_table.table_name,
                      "must have streams enabled">>)
    ELSE IF event_name \notin ValidEventNames \cup {"insert", "modify", "remove"}
    THEN ValueError(<<"event_name must be one of: INSERT, MODIFY, REMOVE. Got:",
                      event_name>>)
    ELSE None

_validate_pipe_parameters(ddb_table, event_name) ==
    IF ~Truthy(ddb_table.table_stream_arn)
    THEN ValueError(<<"DynamoDB table", ddb_table.table_name,
                      "must have streams enabled">>)
    ELSE IF event_name \notin ValidEventNames
    THEN ValueError(<<"event_name must be one of: INSERT, MODIFY, REMOVE. Got:",
                      event_name>>)
    ELSE None

\* Variant: the key filter is an exact value instead of a prefix matcher.
_create_source_parameters_exact_key(event_name) ==
    [dynamo_db_stream_parameters |->
        [starting_position |-> starting_position, batch_size |-> batch_size],
     filter_criteria |->
        [filters |-> <<
            [pattern |-> json_dumps(
                Dict(<<
                    <<"eventName", List(<<PyStr(event_name)>>)>>,
                    <<"dynamodb", Dict(<<
                        <<"Keys", Dict(<<
                            <<"PK", Dict(<<
                                <<"S", List(<<PyStr(key_prefix)>>)>>
                            >>)>>
                        >>)>>
                    >>)>>
                >>))]
        >>]]

\* Variant: the filter lists every event name, not the one given.
_create_source_parameters_all_names(event_name) ==
    [dynamo_db_stream_parameters |->
        [starting_position |-> starting_position, batch_size |-> batch_size],
     filter_criteria |->
        [filters |-> <<
            [pattern |-> json_dumps(
                Dict(<<
                    <<"eventName", List(<<PyStr("INSERT"), PyStr("MODIFY"),
                                          PyStr("REMOVE")>>)>>,
                    <<"dynamodb", Dict(<<
                        <<"Keys", Dict(<<
                            <<"PK", Dict(<<
                                <<"S", List(<<
                                    Dict(<< <<"prefix", PyStr(key_prefix)>> >>)
                                >>)>>
                            >>)>>
                        >>)>>
                    >>)>>
                >>))]
        >>]]

_create_source_parameters(event_name) ==
    [dynamo_db_stream_parameters |->
        [starting_position |-> starting_position, batch_size |-> batch_size],
     filter_criteria |->
        [filters |-> <<
            [pattern |-> json_dumps(
                Dict(<<
                    <<"eventName", List(<<PyStr(event_name)>>)>>,
                    <<"dynamodb", Dict(<<
                        <<"Keys", Dict(<<
                            <<"PK", Dict(<<
                                <<"S", List(<<
                                    Dict(<< <<"prefix", PyStr(key_prefix)>> >>)
                                >>)>>
                            >>)>>
                        >>)>>
                    >>)>>
                >>))]
        >>]]

_create_target_parameters(operation_type, input_template, source_name) ==
    [input_template |-> input_template,
     event_bridge_event_bus_parameters |->
        [detail_type |-> operation_type, source |-> source_name]]

\* f"arn:{partition}:events:{region}:{account}:event-bus/default" in create_pipe
PipeTargetArn ==
    <<"arn", StackPartition, "events", StackRegion, StackAccount,
      "event-bus/default">>

\* Variant: the policy covers every bus of the account.
PolicyTargetArn_any_bus ==
    <<"arn", StackPartition, "events", StackRegion, StackAccount,
      "event-bus/*">>

\* the same f-string in _create_target_policy
PolicyTargetArn ==
    <<"arn", StackPartition, "events", StackRegion, StackAccount,
      "event-bus/default">>

_create_source_policy(ddb_table) ==
    [statements |-> <<
        [actions |-> <<"dynamodb:DescribeStream", "dynamodb:GetRecords",
                       "dynamodb:GetShardIterator", "dynamodb:ListStreams">>,
         effect |-> "ALLOW",
         resources |-> <<ddb_table.table_stream_arn>>]
    >>]

_create_target_policy ==
    [statements |-> <<
        [actions |-> <<"events:PutEvents">>,
         effect |-> "ALLOW",
         resources |-> <<PolicyTargetArn>>]
    >>]

create_pipe_role(ddb_table) ==
    [id |-> <<"PipeIAMRole">>,
     role_arn |-> GetAtt("PipeIAMRole", "Arn"),
     assumed_by |-> "pipes.amazonaws.com",
     description |-> "Role for EventBridge Pipes",
     inline_policies |->
        [SourcePolicy |-> _create_source_policy(ddb_table),
         TargetPolicy |-> _create_target_policy]]

\* f"{operation_type}Pipe"
PipeId(operation_type) == <<operation_type, "Pipe">>

\* Variant: the CfnPipe is constructed before the parameters are validated.
create_pipe_validate_last(operation_type, event_name, input_template, ddb_table, role, source_name) ==
    [raised |-> _validate_pipe_parameters(ddb_table, event_name),
     pipe |->
        [id |-> PipeId(operation_type),
         role_arn |-> role.role_arn,
         source |-> ddb_table.table_stream_arn,
         source_parameters |-> _create_source_parameters(event_name),
         target |-> PipeTargetArn,
         target_parameters |->
            _create_target_parameters(operation_type, input_template,
                                      source_name)]]

\* Variant: the pipe refers to a role other than the one passed in.
create_pipe_own_role(operation_type, event_name, input_template, ddb_table, role, source_name) ==
    LET err == _validate_pipe_parameters(ddb_table, event_name) IN
    IF err # None
    THEN [raised |-> err, pipe |-> None]
    ELSE [raised |-> None,
          pipe |->
            [id |-> PipeId(operation_type),
             role_arn |-> GetAtt("PipeRole", "Arn"),
             source |-> ddb_table.table_stream_arn,
             source_parameters |-> _create_source_parameters(event_name),
             target |-> PipeTargetArn,
             target_parameters |->
                _create_target_parameters(operation_type, input_template,
                                          source_name)]]

\* Variant: the event name, not the label, is passed on as the detail type.
create_pipe_swapped(operation_type, event_name, input_template, ddb_table, role, source_name) ==
    LET err == _validate_pipe_parameters(ddb_table, event_name) IN
    IF err # None
    THEN [raised |-> err, pipe |-> None]
    ELSE [raised |-> None,
          pipe |->
            [id |-> PipeId(operation_type),
             role_arn |-> role.role_arn,
             source |-> ddb_table.table_stream_arn,
             source_parameters |-> _create_source_parameters(event_name),
             target |-> PipeTargetArn,
             target_parameters |->
                _create_target_parameters(event_name, input_template,
                                          source_name)]]

\* create_pipe: the exception raised by validation, or the CfnPipe built.
create_pipe(operation_type, event_name, input_template, ddb_table, role, source_name) ==
    LET err == _validate_pipe_parameters(ddb_table, event_name) IN
    IF err # None
    THEN [raised |-> err, pipe |-> None]
    ELSE [raised |-> None,
          pipe |->
            [id |-> PipeId(operation_type),
             role_arn |-> role.role_arn,
             source |-> ddb_table.table_stream_arn,
             source_parameters |-> _create_source_parameters(event_name),
             target |-> PipeTargetArn,
             target_parameters |->
                _create_target_parameters(operation_type, input_template,
                                          source_name)]]

----------------------------------------------------------------------------
\* Input templates: the literal text as tokens, <$.a.b> being Ph(<<"a","b">>).

Ph(path) == [ph |-> path]

\* '{"userId": <$.dynamodb.Keys.PK.S>}'
UserIdTemplate ==
    <<LBrace, Str("userId"), Colon, Ph(<<"dynamodb", "Keys", "PK", "S">>),
      RBrace>>

\* '{"userId": <$.dynamodb.Keys.PK.S>, "oldImage": <$.dynamodb.OldImage>,
\*   "newImage": <$.dynamodb.NewImage>}'
UserModifiedTemplate ==
    <<LBrace, Str("userId"), Colon, Ph(<<"dynamodb", "Keys", "PK", "S">>),
      Comma, Str("oldImage"), Colon, Ph(<<"dynamodb", "OldImage">>),
      Comma, Str("newImage"), Colon, Ph(<<"dynamodb", "NewImage">>),
      RBrace>>

CallArgs(operation_type, event_name, input_template) ==
    [operation_type |-> operation_type, event_name |-> event_name,
     input_template |-> input_template]

\* Variant: the MODIFY call carries the key-only template of the other two.
ConstructorCalls_same_template ==
    <<CallArgs("UserDeleted", "REMOVE", UserIdTemplate),
      CallArgs("UserCreated", "INSERT", UserIdTemplate),
      CallArgs("UserModified", "MODIFY", UserIdTemplate)>>

\* The three create_pipe calls of UserEventsPipeline.__init__, in order.
ConstructorCalls ==
    <<CallArgs("UserDeleted", "REMOVE", UserIdTemplate),
      CallArgs("UserCreated", "INSERT", UserIdTemplate),
      CallArgs("UserModified", "MODIFY", UserModifiedTemplate)>>

\* app.py: UserEventsPipeline(self, "UserEvents", event_source_name="myapp.users")
AppEventSourceName == "myapp.users"

\* Values of the construct's event_source_name parameter.
EventSourceNames == {AppEventSourceName, "orders.app"}

----------------------------------------------------------------------------
\* The build: app.py constructs the stack, the stack constructs the
\* UserEventsPipeline, then app.synth() runs.

PipePcs == <<"pipe1", "pipe2", "pipe3">>

AfterPipe(i) == IF i < Len(PipePcs) THEN PipePcs[i + 1] ELSE "synth"

Init ==
    /\ pc = "app"
    /\ event_source_name = None
    /\ ddb = None
    /\ pipe_iam_role = None
    /\ children = <<>>
    /\ pipes = <<>>
    /\ calls = <<>>
    /\ error = None
    /\ synthesized = None
    /\ deliveries = <<>>

\* MyApplicationStack.__init__ instantiates the construct.
Instantiate(source_name) ==
    /\ pc = "app"
    /\ event_source_name' = [name |-> source_name]
    /\ pc' = "table"
    /\ UNCHANGED <<ddb, pipe_iam_role, children, pipes, calls, error,
                   synthesized, deliveries>>

\* ddb = dynamodb.Table(self, "DDBTable", ...)
CreateTable(table) ==
    /\ pc = "table"
    /\ ddb' = table
    /\ children' = Append(children, table.id)
    /\ pc' = "role"
    /\ UNCHANGED <<event_source_name, pipe_iam_role, pipes, calls, error,
                   synthesized, deliveries>>

\* pipe_iam_role = self.create_pipe_role(ddb_table=ddb)
CreateRole ==
    /\ pc = "role"
    /\ pipe_iam_role' = create_pipe_role(ddb)
    /\ children' = Append(children, create_pipe_role(ddb).id)
    /\ pc' = "pipe1"
    /\ UNCHANGED <<event_source_name, ddb, pipes, calls, error, synthesized,
                   deliveries>>

\* self.create_pipe(...): the i-th call of the constructor.  An exception
\* leaves the constructor and the stack's __init__, so app.synth() is not
\* reached.
CallCreatePipe(i, args) ==
    /\ pc = PipePcs[i]
    /\ LET r == create_pipe(args.operation_type, args.event_name,
                            args.input_template, ddb, pipe_iam_role,
                            event_source_name.name)
       IN /\ calls' = Append(calls, args)
          /\ pipes' = IF r.pipe # None THEN Append(pipes, r.pipe) ELSE pipes
          /\ children' = IF r.pipe # None THEN Append(children, r.pipe.id)
                         ELSE children
          /\ error' = r.raised
          /\ pc' = IF r.raised # None THEN "raised" ELSE AfterPipe(i)
    /\ UNCHANGED <<event_source_name, ddb, pipe_iam_role, synthesized,
                   deliveries>>

\* app.synth()
Synth ==
    /\ pc = "synth"
    /\ synthesized' = [table |-> ddb, role |-> pipe_iam_role, pipes |-> pipes]
    /\ pc' = "deployed"
    /\ UNCHANGED <<event_source_name, ddb, pipe_iam_role, children, pipes,
                   calls, error, deliveries>>

----------------------------------------------------------------------------
\* The deployed pipes: each pipe reads the table's stream, keeps the records
\* its filter pattern matches and publishes the input template's output.

IsPunct(tok, c) == "p" \in DOMAIN tok /\ tok.p = c

Rest(toks, n) == SubSeq(toks, n, Len(toks))

RECURSIVE parse_value(_)
RECURSIVE parse_members(_, _)
RECURSIVE parse_items(_, _)

parse_members(toks, acc) ==
    LET r == parse_value(Rest(toks, 3))
        items == Append(acc, <<toks[1].s, r.v>>)
    IN IF IsPunct(Head(r.rest), ",")
       THEN parse_members(Tail(r.rest), items)
       ELSE [v |-> Dict(items), rest |-> Tail(r.rest)]

parse_items(toks, acc) ==
    LET r == parse_value(toks)
        items == Append(acc, r.v)
    IN IF IsPunct(Head(r.rest), ",")
       THEN parse_items(Tail(r.rest), items)
       ELSE [v |-> List(items), rest |-> Tail(r.rest)]

parse_value(toks) ==
    IF IsPunct(Head(toks), "{")
    THEN IF IsPunct(toks[2], "}")
         THEN [v |-> Dict(<<>>), rest |-> Rest(toks, 3)]
         ELSE parse_members(Tail(toks), <<>>)
    ELSE IF IsPunct(Head(toks), "[")
    THEN IF IsPunct(toks[2], "]")
         THEN [v |-> List(<<>>), rest |-> Rest(toks, 3)]
         ELSE parse_items(Tail(toks), <<>>)
    ELSE [v |-> PyStr(Head(toks).s), rest |-> Tail(toks)]

json_loads(toks) == parse_value(toks).v

HasKey(d, k) == d.t = "dict" /\ \E i \in 1..Len(d.items) : d.items[i][1] = k

Get(d, k) ==
    d.items[CHOOSE i \in 1..Len(d.items) : d.items[i][1] = k][2]

HasPrefix(s, p) == Len(s) >= Len(p) /\ SubSeq(s, 1, Len(p)) = p

\* One element of a pattern's value list: a string matches by equality, a
\* {"prefix": p} object matches the strings that start with p.
MatchesValue(m, val) ==
    /\ val.t = "str"
    /\ IF m.t = "str" THEN val.s = m.s
       ELSE HasKey(m, "prefix") /\ HasPrefix(val.s, Get(m, "prefix").s)

RECURSIVE MatchesPattern(_, _)

\* Every key of the pattern is present in the record; a list holds the
\* accepted values of a leaf, an object is matched recursively.
MatchesPattern(pat, ev) ==
    \A i \in 1..Len(pat.items) :
        LET k == pat.items[i][1]
            pv == pat.items[i][2]
        IN /\ HasKey(ev, k)
           /\ IF pv.t = "list"
              THEN \E j \in 1..Len(pv.items) : MatchesValue(pv.items[j], Get(ev, k))
              ELSE MatchesPattern(pv, Get(ev, k))

\* A record passes a pipe when one of its filters matches.
PipeMatches(pipe, ev) ==
    LET filters == pipe.source_parameters.filter_criteria.filters
    IN \E i \in 1..Len(filters) :
           MatchesPattern(json_loads(filters[i].pattern), ev)

RECURSIVE Resolve(_, _)

Resolve(v, path) ==
    IF path = <<>> THEN v
    ELSE IF HasKey(v, Head(path)) THEN Resolve(Get(v, Head(path)), Tail(path))
    ELSE PyStr("")

RECURSIVE ApplyTemplate(_, _)

\* Each <$.path> is replaced by the JSON text of the value at that path.
ApplyTemplate(template, ev) ==
    IF template = <<>> THEN <<>>
    ELSE (IF "ph" \in DOMAIN Head(template)
          THEN json_dumps(Resolve(ev, Head(template).ph))
          ELSE <<Head(template)>>)
         \o ApplyTemplate(Tail(template), ev)

\* What the deployed pipes put on the bus for one stream record.
Publish(deployed, ev) ==
    [i \in {j \in 1..Len(deployed) : PipeMatches(deployed[j], ev)} |->
        [pipe |-> deployed[i].id,
         detail_type |->
            deployed[i].target_parameters.event_bridge_event_bus_parameters.detail_type,
         source |->
            deployed[i].target_parameters.event_bridge_event_bus_parameters.source,
         detail |-> ApplyTemplate(deployed[i].target_parameters.input_template, ev)]]

\* Stream records of the table (NEW_AND_OLD_IMAGES).
AttrS(s) == Dict(<< <<"S", PyStr(s)>> >>)

Image(pk, sk, name) ==
    Dict(<< <<"PK", AttrS(pk)>>, <<"SK", AttrS(sk)>>, <<"name", AttrS(name)>> >>)

ChangeEvent(op, pk, sk) ==
    Dict(<<
        <<"eventName", PyStr(op)>>,
        <<"dynamodb", Dict(
            << <<"Keys", Dict(<< <<"PK", AttrS(pk)>>, <<"SK", AttrS(sk)>> >>)>> >>
            \o (IF op \in {"MODIFY", "REMOVE"}
                THEN << <<"OldImage", Image(pk, sk, "old")>> >> ELSE <<>>)
            \o (IF op \in {"INSERT", "MODIFY"}
                THEN << <<"NewImage", Image(pk, sk, "new")>> >> ELSE <<>>))>>
    >>)

PartitionKeys ==
    { <<"U", "S", "E", "R", "#", "1", "2", "3">>,
      <<"U", "S", "E", "R", "#">>,
      <<"U", "S", "E", "R">>,
      <<"u", "s", "e", "r", "#", "1">>,
      <<"O", "R", "D", "E", "R", "#", "U", "S", "E", "R", "#", "1">> }

SortKeys == { <<"P", "R", "O", "F", "I", "L", "E">>, <<"S", "E", "T">> }

ChangeEvents ==
    { ChangeEvent(op, pk, sk) : op \in ValidEventNames, pk \in PartitionKeys,
                                sk \in SortKeys }

\* One delivery of a stream record (the stream delivers at least once, so a
\* record may be delivered again).
Deliver(ev) ==
    /\ pc = "deployed"
    /\ Len(deliveries) < MaxDeliveries
    /\ deliveries' = Append(deliveries,
                            [event |-> ev, published |-> Publish(synthesized.pipes, ev)])
    /\ UNCHANGED <<pc, event_source_name, ddb, pipe_iam_role, children, pipes,
                   calls, error, synthesized>>

Next ==
    \/ \E source_name \in EventSourceNames : Instantiate(source_name)
    \/ CreateTable(DDBTable)
    \/ CreateRole
    \/ \E i \in 1..Len(ConstructorCalls) : CallCreatePipe(i, ConstructorCalls[i])
    \/ Synth
    \/ \E ev \in ChangeEvents : Deliver(ev)

Spec == Init /\ [][Next]_vars

----------------------------------------------------------------------------
\* The builder on arbitrary arguments: the same constructor steps, with the
\* table and the arguments of each create_pipe call drawn from small sets.

TableWithoutStream ==
    Table("DDBTable", Attribute("PK", "STRING"), Attribute("SK", "STRING"), None)

\* A table reference whose stream ARN is the empty string.
TableWithEmptyStreamArn ==
    [DDBTable EXCEPT !.table_stream_arn = EmptyString]

Tables == {DDBTable, TableWithoutStream, TableWithEmptyStreamArn}

Labels == {"UserCreated", "UserModified", "UserDeleted", "INSERT"}

EventNames == ValidEventNames \cup {"UPDATE", "insert", "UserCreated"}

Templates == {UserIdTemplate, UserModifiedTemplate}

InScope(id) == \E k \in 1..Len(children) : children[k] = id

BuildTable == \E table \in Tables : CreateTable(table)

\* A construct id is used once in a scope, so each call has a fresh label.
BuildPipe ==
    \E i \in 1..Len(PipePcs), label \in Labels, event_name \in EventNames,
       template \in Templates :
        /\ ~InScope(PipeId(label))
        /\ CallCreatePipe(i, CallArgs(label, event_name, template))

NextBuild ==
    \/ \E source_name \in EventSourceNames : Instantiate(source_name)
    \/ BuildTable
    \/ CreateRole
    \/ BuildPipe
    \/ Synth

SpecBuild == Init /\ [][NextBuild]_vars

----------------------------------------------------------------------------
\* Properties

PatternOf(pipe) == pipe.source_parameters.filter_criteria.filters[1].pattern

BusParametersOf(pipe) == pipe.target_parameters.event_bridge_event_bus_parameters

StreamEnabled == Len(calls) > 0 /\ Truthy(ddb.table_stream_arn)

StreamMissing == Len(calls) > 0 /\ ~Truthy(ddb.table_stream_arn)

\* {"eventName": [op], "dynamodb": {"Keys": {"PK": {"S": [{"prefix": "USER#"}]}}}}
ExpectedPattern(op) ==
    <<LBrace, Str("eventName"), Colon, LBracket, Str(op), RBracket, Comma,
      Str("dynamodb"), Colon, LBrace, Str("Keys"), Colon, LBrace,
      Str("PK"), Colon, LBrace, Str("S"), Colon, LBracket,
      LBrace, Str("prefix"), Colon, Str(<<"U", "S", "E", "R", "#">>), RBrace,
      RBracket, RBrace, RBrace, RBrace, RBrace>>

\* C1: every pipe built by create_pipe has exactly one filter, whose pattern
\* is {"eventName": [op], "dynamodb": {"Keys": {"PK": {"S": [{"prefix":
\* "USER#"}]}}}} for the event name op of its call, whatever the label, the
\* template and the event source name of the call.
C1_FilterPattern ==
    \A i \in 1..Len(pipes) :
        /\ calls[i].event_name \in {"INSERT", "MODIFY", "REMOVE"}
        /\ Len(pipes[i].source_parameters.filter_criteria.filters) = 1
        /\ PatternOf(pipes[i]) = ExpectedPattern(calls[i].event_name)

C1_Witness ==
    /\ Len(pipes) = 3
    /\ {calls[i].event_name : i \in 1..3} = {"INSERT", "MODIFY", "REMOVE"}
    /\ calls[1].operation_type = "INSERT"
    /\ calls[1].input_template # calls[2].input_template
    /\ event_source_name.name # AppEventSourceName

\* C2 as stated: on a table without a stream create_pipe fails with an error
\* whose kind differs from the kind of the invalid-operation-type error.
C2_Original ==
    StreamMissing =>
        /\ pc = "raised"
        /\ error.type # _validate_pipe_parameters(DDBTable, "UPDATE").type

\* C2 amended: on a table whose stream ARN is absent or empty the first
\* create_pipe call raises ValueError with the "must have streams enabled"
\* message and builds no pipe, for every event name (valid or not), label and
\* template; the error has the same type as the invalid-operation-type error
\* and differs from it in its message only.
C2_MissingStream ==
    StreamMissing =>
        /\ pc = "raised"
        /\ Len(calls) = 1
        /\ pipes = <<>>
        /\ error = [type |-> "ValueError",
                    message |-> <<"DynamoDB table", ddb.table_name,
                                  "must have streams enabled">>]
        /\ LET other == _validate_pipe_parameters(DDBTable, "UPDATE")
           IN other.type = error.type /\ other.message # error.message

C2_Witness ==
    /\ pc = "raised"
    /\ ddb.table_stream_arn = None
    /\ calls[1].event_name = "UPDATE"
    /\ error.message[3] = "must have streams enabled"

\* C3: on a table with a stream, a create_pipe call whose event name is not
\* INSERT, MODIFY or REMOVE raises the "event_name must be one of" ValueError
\* and builds no pipe, and a call whose event name is one of the three builds
\* its pipe.
C3_InvalidOperationType ==
    StreamEnabled =>
        \A i \in 1..Len(calls) :
            IF calls[i].event_name \in {"INSERT", "MODIFY", "REMOVE"}
            THEN /\ Len(pipes) >= i
                 /\ pipes[i].id = <<calls[i].operation_type, "Pipe">>
                 /\ (i = Len(calls) => error = None /\ pc # "raised")
            ELSE /\ i = Len(calls)
                 /\ Len(pipes) = i - 1
                 /\ pc = "raised"
                 /\ error = [type |-> "ValueError",
                             message |->
                                <<"event_name must be one of: INSERT, MODIFY, REMOVE. Got:",
                                  calls[i].event_name>>]

C3_Witness ==
    /\ pc = "raised"
    /\ Truthy(ddb.table_stream_arn)
    /\ Len(pipes) = 2
    /\ calls[3].event_name = "insert"
    /\ calls[3].operation_type = "UserCreated"

\* C4: a create_pipe call that raises adds no pipe and no construct, the
\* build stops there (no step follows, so nothing is retried and app.synth()
\* does not run), and no synthesized output exists.
C4_AbortsBuild ==
    /\ [](error # None => pc = "raised" /\ synthesized = None)
    /\ [][/\ pc # "raised"
          /\ (pc' = "raised" =>
                /\ error' # None
                /\ pipes' = pipes
                /\ children' = children
                /\ synthesized' = None)]_vars

C4_Witness ==
    /\ pc = "raised"
    /\ Len(pipes) = 2
    /\ Len(calls) = 3
    /\ pipe_iam_role # None
    /\ synthesized = None

PKPath == <<"dynamodb", "Keys", "PK", "S">>

\* The "name": <$.path> members of a template.
TemplateFields(template) ==
    { <<template[k].s, template[k + 2].ph>> :
        k \in { j \in 1..(Len(template) - 2) :
                    /\ "s" \in DOMAIN template[j]
                    /\ IsPunct(template[j + 1], ":")
                    /\ "ph" \in DOMAIN template[j + 2] } }

TemplatePlaceholders(template) ==
    { template[k].ph : k \in { j \in 1..Len(template) : "ph" \in DOMAIN template[j] } }

\* C5: the template of the MODIFY pipe references the key, the old image and
\* the new image (userId, oldImage, newImage); the templates of the INSERT
\* and REMOVE pipes reference the partition key only (userId).
C5_Templates ==
    \A i \in 1..Len(pipes) :
        LET template == pipes[i].target_parameters.input_template
            expected ==
                IF calls[i].event_name = "MODIFY"
                THEN { <<"userId", PKPath>>,
                       <<"oldImage", <<"dynamodb", "OldImage">>>>,
                       <<"newImage", <<"dynamodb", "NewImage">>>> }
                ELSE { <<"userId", PKPath>> }
        IN /\ TemplateFields(template) = expected
           /\ TemplatePlaceholders(template) = { f[2] : f \in expected }

C5_Witness ==
    /\ Len(pipes) = 3
    /\ calls[3].event_name = "MODIFY"
    /\ Cardinality(TemplateFields(pipes[3].target_parameters.input_template)) = 3
    /\ Cardinality(TemplateFields(pipes[1].target_parameters.input_template)) = 1

EventOp(ev) == Get(ev, "eventName").s

EventPK(ev) == Resolve(ev, PKPath).s

EventSK(ev) == Resolve(ev, <<"dynamodb", "Keys", "SK", "S">>).s

StartsWithUserHash(s) ==
    Len(s) >= 5 /\ <<s[1], s[2], s[3], s[4], s[5]>> = <<"U", "S", "E", "R", "#">>

\* The pipes built for event name op.
RulesFor(op) == { i \in 1..Len(pipes) : calls[i].event_name = op }

\* C6: every delivered INSERT record whose partition key starts with "USER#"
\* passes the filter of the INSERT pipe, and that pipe publishes exactly
\* {"userId": <the partition key>}.
C6_InsertRouting ==
    \A k \in 1..Len(deliveries) :
        LET d == deliveries[k] IN
        (EventOp(d.event) = "INSERT" /\ StartsWithUserHash(EventPK(d.event))) =>
            /\ RulesFor("INSERT") # {}
            /\ \A i \in RulesFor("INSERT") :
                /\ i \in DOMAIN d.published
                /\ d.published[i].detail =
                     <<LBrace, Str("userId"), Colon, Str(EventPK(d.event)), RBrace>>

C6_Witness ==
    /\ Len(deliveries) = 1
    /\ EventOp(deliveries[1].event) = "INSERT"
    /\ EventPK(deliveries[1].event) = <<"U", "S", "E", "R", "#", "1", "2", "3">>
    /\ EventSK(deliveries[1].event) = <<"P", "R", "O", "F", "I", "L", "E">>
    /\ 2 \in DOMAIN deliveries[1].published
    /\ deliveries[1].published[2].detail =
         <<LBrace, Str("userId"), Colon,
           Str(<<"U", "S", "E", "R", "#", "1", "2", "3">>), RBrace>>

RoleChildren == { k \in 1..Len(children) : children[k] = <<"PipeIAMRole">> }

PipeChildren == { k \in 1..Len(children) : Len(children[k]) = 2 }

\* C7: the pipes built for the table carry pairwise distinct labels
\* (UserCreated, UserModified, UserDeleted once all three are built), they all
\* refer to the one role, which is constructed once, before the first pipe,
\* and which no later step replaces or changes.
C7_SharedRole ==
    /\ [](/\ \A i, j \in 1..Len(pipes) :
                i # j => BusParametersOf(pipes[i]).detail_type
                         # BusParametersOf(pipes[j]).detail_type
          /\ (Len(pipes) = 3 =>
                { BusParametersOf(pipes[i]).detail_type : i \in 1..3 }
                = {"UserCreated", "UserModified", "UserDeleted"})
          /\ \A i \in 1..Len(pipes) :
                /\ pipe_iam_role # None
                /\ pipes[i].role_arn = pipe_iam_role.role_arn
          /\ Cardinality(RoleChildren) = (IF pipe_iam_role = None THEN 0 ELSE 1)
          /\ \A r \in RoleChildren, q \in PipeChildren : r < q)
    /\ [][pipe_iam_role # None => pipe_iam_role' = pipe_iam_role]_vars

C7_Witness ==
    /\ Len(pipes) = 3
    /\ Cardinality({ pipes[i].role_arn : i \in 1..3 }) = 1
    /\ Cardinality({ BusParametersOf(pipes[i]).detail_type : i \in 1..3 }) = 3
    /\ Cardinality(PipeChildren) = 3

\* C8: the role's source policy has one statement that allows only read-only
\* stream actions on exactly one resource, the table's stream ARN, which is
\* the source of every pipe; its target policy has one statement that allows
\* only events:PutEvents on exactly one resource, the event bus ARN, which is
\* the target of every pipe.
C8_PolicyScope ==
    pipe_iam_role # None =>
        LET policies == pipe_iam_role.inline_policies
            src == policies.SourcePolicy.statements
            tgt == policies.TargetPolicy.statements
        IN /\ DOMAIN policies = {"SourcePolicy", "TargetPolicy"}
           /\ Len(src) = 1
           /\ src[1].effect = "ALLOW"
           /\ { src[1].actions[k] : k \in 1..Len(src[1].actions) }
                \subseteq {"dynamodb:DescribeStream", "dynamodb:GetRecords",
                           "dynamodb:GetShardIterator", "dynamodb:ListStreams"}
           /\ src[1].actions # <<>>
           /\ src[1].resources = <<ddb.table_stream_arn>>
           /\ Truthy(ddb.table_stream_arn)
           /\ \A i \in 1..Len(pipes) : pipes[i].source = src[1].resources[1]
           /\ Len(tgt) = 1
           /\ tgt[1].effect = "ALLOW"
           /\ tgt[1].actions = <<"events:PutEvents">>
           /\ Len(tgt[1].resources) = 1
           /\ tgt[1].resources[1][6] = "event-bus/default"
           /\ \A i \in 1..Len(pipes) : pipes[i].target = tgt[1].resources[1]

C8_Witness ==
    /\ Len(pipes) = 3
    /\ pipe_iam_role # None
    /\ pipes[3].source = pipe_iam_role.inline_policies.SourcePolicy.statements[1].resources[1]
    /\ pipes[3].target = pipe_iam_role.inline_policies.TargetPolicy.statements[1].resources[1]

\* The event names a pipe's filter pattern lists: the strings between the
\* brackets that follow "eventName".
FilterEventNames(pipe) ==
    LET pat == PatternOf(pipe)
        key == CHOOSE n \in 1..Len(pat) : pat[n] = Str("eventName")
        close == CHOOSE n \in (key + 1)..Len(pat) :
                    /\ pat[n] = RBracket
                    /\ \A m \in (key + 1)..(n - 1) : pat[m] # RBracket
    IN { pat[k].s : k \in { j \in (key + 1)..close : "s" \in DOMAIN pat[j] } }

LabelFor == [INSERT |-> "UserCreated", MODIFY |-> "UserModified",
             REMOVE |-> "UserDeleted"]

\* C9: the detail type of each pipe is the label of its call, paired with the
\* event name of its filter as INSERT -> UserCreated, MODIFY -> UserModified,
\* REMOVE -> UserDeleted; the source of every pipe is the construct's
\* event_source_name ("myapp.users" in the app); no detail type is an event
\* name and no filter lists a label.
C9_Tagging ==
    \A i \in 1..Len(pipes) :
        LET bus == BusParametersOf(pipes[i]) IN
        /\ bus.detail_type = calls[i].operation_type
        /\ FilterEventNames(pipes[i]) = {calls[i].event_name}
        /\ \A op \in FilterEventNames(pipes[i]) :
              /\ op \in DOMAIN LabelFor
              /\ bus.detail_type = LabelFor[op]
        /\ bus.detail_type \notin {"INSERT", "MODIFY", "REMOVE"}
        /\ bus.source = event_source_name.name
        /\ \A j \in 1..Len(pipes) : BusParametersOf(pipes[j]).source = bus.source

C9_Witness ==
    /\ Len(pipes) = 3
    /\ event_source_name.name = "myapp.users"
    /\ \A i \in 1..3 : BusParametersOf(pipes[i]).source = "myapp.users"
    /\ BusParametersOf(pipes[2]).detail_type = "UserCreated"

\* C10: for every delivered record at most one pipe's filter matches; when the
\* partition key starts with "USER#" exactly one matches, the pipe built for
\* the record's own event name; otherwise none matches.  So one delivery is
\* never published under two detail types.
C10_Partition ==
    \A k \in 1..Len(deliveries) :
        LET d == deliveries[k]
            matched == DOMAIN d.published
        IN /\ Cardinality(matched) <= 1
           /\ Cardinality({ d.published[i].detail_type : i \in matched }) <= 1
           /\ IF StartsWithUserHash(EventPK(d.event))
              THEN /\ Cardinality(matched) = 1
                   /\ matched = RulesFor(EventOp(d.event))
                   /\ \A i \in matched :
                        d.published[i].detail_type = LabelFor[EventOp(d.event)]
              ELSE matched = {}

C10_Witness ==
    /\ Len(deliveries) = 2
    /\ DOMAIN deliveries[1].published = {3}
    /\ EventPK(deliveries[1].event) = <<"U", "S", "E", "R", "#">>
    /\ DOMAIN deliveries[2].published = {}
    /\ EventPK(deliveries[2].event) = <<"u", "s", "e", "r", "#", "1">>

====
